---- MODULE Spec2Model ----
(***************************************************************************)
(* A model of tabris-js's ClientStub (the remote object bridge's operation *)
(* log and shadow record store) and of WidgetCollection (selection over    *)
(* the proxy tree and bulk dispatch), from src/src/tabris/WidgetCollection.js. *)
(***************************************************************************)
EXTENDS Integers, Sequences, FiniteSets, TLC

\* ------------------------------------------------------------- bounds

\* The number of operations that reach the ClientStub in one behaviour.
MaxOps == 3
\* The number of operations the native bridge holds back before a flush.
MaxPending == 2

\* ------------------------------------------------------------- values

\* JavaScript's undefined, for a field an object does not have.
Undefined == "undefined"

\* Remote object identities the operations are issued for.
Ids == {"w1", "w2"}
\* Native type names given to create.
Types == {"Button"}
\* Property mappings passed to create and to set, as object literals.
\* A mapping is a function from the keys it holds to their values.
CreateProps == {[text |-> "a"]}
SetProps == {[text |-> "b"], [text |-> "c", font |-> "b"]}
\* The object literal {}.
EmptyMap == [k \in {} |-> Undefined]

\* The operations the callers issue; a ClientStub method's arguments by value.
Operations ==
       {[op |-> "create", id |-> i, type |-> t, properties |-> p] :
           i \in Ids, t \in Types, p \in CreateProps}
  \cup {[op |-> "get", id |-> "w1", property |-> "text"]}
  \cup {[op |-> "set", id |-> i, properties |-> p] : i \in Ids, p \in SetProps}
  \cup {[op |-> "call", id |-> "w1", method |-> "focus", parameters |-> Undefined]}
  \cup {[op |-> "listen", id |-> "w2", event |-> "tap", listen |-> TRUE]}
  \cup {[op |-> "destroy", id |-> i] : i \in Ids}

\* The operations the widgets issue through the native bridge, which buffers
\* them.
BridgeOperations == {o \in Operations : o.id = "w1" \/ o.op = "listen"}

\* The filters given to calls(): undefined (no filter) or a mapping from
\* field names to the values an entry must have.
NoFilter == EmptyMap
Filters == {NoFilter, [op |-> "set", id |-> "w1"], [type |-> "Button"]}

\* ------------------------------------------------------------- state

VARIABLES
  calls,     \* ClientStub.$calls: the operation log, entries hold object references
  objects,   \* ClientStub.$objects: id -> {type, properties}, properties a reference
  heap,      \* the JavaScript objects the log and the records refer to, by reference
  pending,   \* the native bridge's buffered operations, not yet flushed
  history,   \* every operation that reached the ClientStub, by value, in order
  logStart,  \* Len(history) at the last resetCalls()
  result,    \* what the last method call returned or threw, and for an
             \* inspection the number of operations its flush delivered
  childList,   \* each widget's ordered child widgets (the local proxy tree)
  thisArray,   \* the _array of the collection the last method was called on
               \* (for the constructor: the array it was given)
  invocation,  \* the last WidgetCollection method called, with its arguments
  invoked,     \* the member calls the last bulk dispatch made, in order
  returned,    \* what that method returned or threw
  idOf,        \* each widget's id property
  classesOf,   \* each widget's classList
  arrays,      \* the JavaScript arrays, by reference: the array a collection
               \* was built from, its _array, the array toArray() returned
  sourceRef,   \* the reference of the array the collection was built from (0: none)
  ownRef,      \* the reference of the collection's _array (0: no collection yet)
  handedRef,   \* the reference of the array toArray() returned (0: none)
  produced,    \* the collection's members when it was produced, and its arguments
  mutations,   \* the number of mutations of the tree, the widgets and the arrays
  iterators    \* the iterators made from the collection: index and what it yielded

bridgeVars == <<calls, objects, heap, pending, history, logStart, result>>
widgetVars == <<idOf, classesOf>>
snapVars == <<arrays, sourceRef, ownRef, handedRef, produced, mutations>>
iterVars == <<iterators>>
collVars == <<childList, thisArray, invocation, invoked, returned,
              widgetVars, snapVars, iterVars>>
vars == <<bridgeVars, collVars>>

\* ------------------------------------------------------------- helpers

\* obj[key] of a JavaScript object: undefined when the object has no such key.
Field(obj, key) == IF key \in DOMAIN obj THEN obj[key] ELSE Undefined

\* Object.assign with the target's values winning over the source's.
ObjectAssignKeepTarget(target, source) ==
  [k \in DOMAIN target \cup DOMAIN source |->
     IF k \in DOMAIN target THEN target[k] ELSE source[k]]

\* Object.assign(target, source): source's keys overwrite, the rest is kept.
ObjectAssign(target, source) ==
  [k \in DOMAIN target \cup DOMAIN source |->
     IF k \in DOMAIN source THEN source[k] ELSE target[k]]

\* objects[id] = record
PutObject(objs, id, rec) ==
  [i \in DOMAIN objs \cup {id} |-> IF i = id THEN rec ELSE objs[i]]

\* delete objects[id]
DeleteObject(objs, id) == [i \in DOMAIN objs \ {id} |-> objs[i]]

\* The stub's state as one value, so that flush can thread it through the
\* buffered operations.
Stub(c, o, h) == [calls |-> c, objects |-> o, heap |-> h]

\* ------------------------------------------------- ClientStub methods

\* create(id, type, properties): the log entry and the record share the one
\* properties object the caller passed.
ClientCreate(s, id, type, properties) ==
  LET ref == Len(s.heap) + 1
  IN  Stub(Append(s.calls, [op |-> "create", id |-> id, type |-> type, properties |-> ref]),
           PutObject(s.objects, id, [type |-> type, properties |-> ref]),
           Append(s.heap, properties))

\* get(id, property)
ClientGet(s, id, property) ==
  Stub(Append(s.calls, [op |-> "get", id |-> id, property |-> property]),
       s.objects, s.heap)

\* set(id, properties) that makes no record: without one it only logs.
ClientSetKnownOnly(s, id, properties) ==
  LET ref == Len(s.heap) + 1
      h1 == Append(s.heap, properties)
      logged == Append(s.calls, [op |-> "set", id |-> id, properties |-> ref])
  IN  IF id \notin DOMAIN s.objects THEN Stub(logged, s.objects, h1)
      ELSE Stub(logged, s.objects,
                [h1 EXCEPT ![s.objects[id].properties] = ObjectAssign(@, properties)])

\* set(id, properties): a record is made when there is none, then the
\* properties are assigned onto the record's properties object in place.
ClientSet(s, id, properties) ==
  LET ref == Len(s.heap) + 1
      h1 == Append(s.heap, properties)
      fresh == id \notin DOMAIN s.objects
      h2 == IF fresh THEN Append(h1, EmptyMap) ELSE h1
      o2 == IF fresh THEN PutObject(s.objects, id, [properties |-> Len(h2)])
                     ELSE s.objects
      target == o2[id].properties
  IN  Stub(Append(s.calls, [op |-> "set", id |-> id, properties |-> ref]),
           o2,
           [h2 EXCEPT ![target] = ObjectAssign(h2[target], properties)])

\* call(id, method, parameters)
ClientCall(s, id, method, parameters) ==
  Stub(Append(s.calls, [op |-> "call", id |-> id, method |-> method,
                        parameters |-> parameters]),
       s.objects, s.heap)

\* listen(id, event, listen) that logs nothing when the log already has the
\* same entry.
ClientListenOnce(s, id, event, listen) ==
  LET entry == [op |-> "listen", id |-> id, event |-> event, listen |-> listen]
  IN  IF \E i \in 1..Len(s.calls) : s.calls[i] = entry THEN s
      ELSE Stub(Append(s.calls, entry), s.objects, s.heap)

\* listen(id, event, listen)
ClientListen(s, id, event, listen) ==
  Stub(Append(s.calls, [op |-> "listen", id |-> id, event |-> event, listen |-> listen]),
       s.objects, s.heap)

\* destroy(id) that logs the operation and leaves the record.
ClientDestroyLogOnly(s, id) ==
  Stub(Append(s.calls, [op |-> "destroy", id |-> id]), s.objects, s.heap)

\* destroy(id) that removes the record and logs nothing.
ClientDestroyUnlogged(s, id) ==
  Stub(s.calls, DeleteObject(s.objects, id), s.heap)

\* destroy(id)
ClientDestroy(s, id) ==
  Stub(Append(s.calls, [op |-> "destroy", id |-> id]),
       DeleteObject(s.objects, id), s.heap)

\* The ClientStub method an operation invokes.
Invoke(s, o) ==
  CASE o.op = "create"  -> ClientCreate(s, o.id, o.type, o.properties)
    [] o.op = "get"     -> ClientGet(s, o.id, o.property)
    [] o.op = "set"     -> ClientSet(s, o.id, o.properties)
    [] o.op = "call"    -> ClientCall(s, o.id, o.method, o.parameters)
    [] o.op = "listen"  -> ClientListen(s, o.id, o.event, o.listen)
    [] o.op = "destroy" -> ClientDestroy(s, o.id)

\* tabris._nativeBridge.flush(): the buffered operations reach the stub one by
\* one, in the order they were buffered.
RECURSIVE FlushOps(_, _)
FlushOps(s, ops) ==
  IF ops = <<>> THEN s ELSE FlushOps(Invoke(s, Head(ops)), Tail(ops))

\* The call filter keeping an entry as soon as one key of the filter agrees.
RECURSIVE selectCallsAnyKey(_, _)
selectCallsAnyKey(log, filterProperties) ==
  IF log = <<>> THEN <<>>
  ELSE LET call == Head(log)
           keep == \/ DOMAIN filterProperties = {}
                   \/ \E key \in DOMAIN filterProperties :
                        filterProperties[key] = Field(call, key)
       IN  (IF keep THEN <<call>> ELSE <<>>)
             \o selectCallsAnyKey(Tail(log), filterProperties)

\* select.call(this.$calls, filterProperties): the entries every key of the
\* filter agrees with, in log order.
RECURSIVE selectCalls(_, _)
selectCalls(log, filterProperties) ==
  IF log = <<>> THEN <<>>
  ELSE LET call == Head(log)
           keep == \A key \in DOMAIN filterProperties :
                     filterProperties[key] = Field(call, key)
       IN  (IF keep THEN <<call>> ELSE <<>>) \o selectCalls(Tail(log), filterProperties)

\* ------------------------------------------------------------- actions

NoResult == [kind |-> "none"]

InitBridge ==
  /\ calls = <<>>
  /\ objects = [i \in {} |-> Undefined]
  /\ heap = <<>>
  /\ pending = <<>>
  /\ history = <<>>
  /\ logStart = 0
  /\ result = NoResult

\* A method of the stub runs on the current state.
Apply(o) ==
  LET s == Invoke(Stub(calls, objects, heap), o)
  IN  /\ Len(history) + Len(pending) < MaxOps
      /\ calls' = s.calls
      /\ objects' = s.objects
      /\ heap' = s.heap
      /\ history' = Append(history, o)
      /\ result' = NoResult
      /\ UNCHANGED <<pending, logStart, collVars>>

Create == \E o \in Operations : o.op = "create" /\ Apply(o)
Get == \E o \in Operations : o.op = "get" /\ Apply(o)
Set == \E o \in Operations : o.op = "set" /\ Apply(o)
Call == \E o \in Operations : o.op = "call" /\ Apply(o)
Listen == \E o \in Operations : o.op = "listen" /\ Apply(o)
Destroy == \E o \in Operations : o.op = "destroy" /\ Apply(o)

\* The native bridge holds an operation back until the next flush.
Buffer ==
  \E o \in BridgeOperations :
    /\ Len(history) + Len(pending) < MaxOps
    /\ Len(pending) < MaxPending
    /\ pending' = Append(pending, o)
    /\ result' = NoResult
    /\ UNCHANGED <<calls, objects, heap, history, logStart, collVars>>

\* The state of the stub once the bridge has flushed.
Flushed == FlushOps(Stub(calls, objects, heap), pending)

\* calls(filterProperties)
Calls ==
  \E f \in Filters :
    LET s == Flushed
    IN  /\ calls' = s.calls
        /\ objects' = s.objects
        /\ heap' = s.heap
        /\ pending' = <<>>
        /\ history' = history \o pending
        /\ result' = [kind |-> "calls", filter |-> f, value |-> selectCalls(s.calls, f),
                       flushed |-> Len(pending)]
        /\ UNCHANGED <<logStart, collVars>>

\* resetCalls() that clears the log without flushing first.
ResetCallsNoFlush ==
  /\ calls' = <<>>
  /\ logStart' = Len(history)
  /\ result' = [kind |-> "resetCalls", flushed |-> 0]
  /\ UNCHANGED <<objects, heap, pending, history, collVars>>

\* resetCalls() that clears the records along with the log.
ResetCallsAndRecords ==
  LET s == Flushed
  IN  /\ calls' = <<>>
      /\ objects' = [i \in {} |-> Undefined]
      /\ heap' = s.heap
      /\ pending' = <<>>
      /\ history' = history \o pending
      /\ logStart' = Len(history')
      /\ result' = [kind |-> "resetCalls", flushed |-> Len(pending)]
      /\ UNCHANGED collVars

\* resetCalls()
ResetCalls ==
  LET s == Flushed
  IN  /\ calls' = <<>>
      /\ objects' = s.objects
      /\ heap' = s.heap
      /\ pending' = <<>>
      /\ history' = history \o pending
      /\ logStart' = Len(history')
      /\ result' = [kind |-> "resetCalls", flushed |-> Len(pending)]
      /\ UNCHANGED collVars

\* properties(id)
Properties ==
  \E id \in Ids :
    LET s == Flushed
    IN  /\ calls' = s.calls
        /\ objects' = s.objects
        /\ heap' = s.heap
        /\ pending' = <<>>
        /\ history' = history \o pending
        /\ result' = IF id \notin DOMAIN s.objects
                       THEN [kind |-> "properties", id |-> id, flushed |-> Len(pending),
                             error |-> "No object with id"]
                       ELSE [kind |-> "properties", id |-> id, flushed |-> Len(pending),
                             value |-> s.objects[id].properties]
        /\ UNCHANGED <<logStart, collVars>>

\* The native bridge flushes on its own, at the end of a native event.
Flush ==
  LET s == Flushed
  IN  /\ pending # <<>>
      /\ calls' = s.calls
      /\ objects' = s.objects
      /\ heap' = s.heap
      /\ pending' = <<>>
      /\ history' = history \o pending
      /\ result' = NoResult
      /\ UNCHANGED <<logStart, collVars>>

\* ------------------------------------------------- the widget proxies

\* The number of widget proxies.
NumWidgets == 3
\* The longest array a collection is built from.
MaxLen == 2

\* The widgets, named by their cid.
Widgets == 1..NumWidgets

\* widget.constructor.name
TypeName(w) == IF w % 3 = 0 THEN "Button" ELSE "Composite"
\* widget.id
WidgetId(w) == idOf[w]
\* widget.classList
ClassList(w) == classesOf[w]
\* The id and the classList the widgets are created with.
InitialId(w) == IF w % 2 = 0 THEN "x" ELSE ""
InitialClassList(w) ==
  IF w % 3 = 0 THEN <<"z", "y">> ELSE IF w % 3 = 1 THEN <<"yy">> ELSE <<>>
\* The classes a widget's class extends, itself included.
SuperTypes(name) == {name, "Widget", "NativeObject"}

\* widget.children(): a collection of the widget's children, in child order.
WidgetChildren(w) == childList[w]

\* widget.parent(): 0 stands for no parent.
WidgetParent(w) ==
  IF \E p \in Widgets : \E i \in 1..Len(childList[p]) : childList[p][i] = w
    THEN CHOOSE p \in Widgets : \E i \in 1..Len(childList[p]) : childList[p][i] = w
    ELSE 0

\* The widgets below w in the tree.
RECURSIVE Below(_)
Below(w) ==
  LET kids == {childList[w][i] : i \in 1..Len(childList[w])}
  IN  kids \cup UNION {Below(k) : k \in kids}

\* The arrays a collection is built from: any widgets, repeats included.
RECURSIVE ArraysOf(_)
ArraysOf(n) ==
  IF n = 0 THEN {<<>>}
  ELSE LET shorter == ArraysOf(n - 1)
       IN  shorter \cup {Append(a, w) : a \in {s \in shorter : Len(s) = n - 1},
                                         w \in Widgets}
Arrays == ArraysOf(MaxLen)

\* The selectors: an absent argument, strings, a widget constructor, a
\* predicate function (by the widgets it holds for), and values that are none
\* of these (such as 42 and 0).
Star == [kind |-> "string", value |-> "*"]
Selectors ==
  {[kind |-> "undefined"], Star,
   [kind |-> "string", value |-> "#x"], [kind |-> "string", value |-> ".y"],
   [kind |-> "string", value |-> "Button"],
   [kind |-> "type", name |-> "Button"],
   [kind |-> "predicate", holds |-> {w \in Widgets : w > 1}],
   [kind |-> "other", truthy |-> TRUE], [kind |-> "other", truthy |-> FALSE]}

\* A value's truth in a condition or in `selector || '*'`.
Truthy(selector) ==
  CASE selector.kind = "undefined" -> FALSE
    [] selector.kind = "string" -> selector.value # ""
    [] selector.kind = "other" -> selector.truthy
    [] OTHER -> TRUE

\* selector || '*'
OrStar(selector) == IF Truthy(selector) THEN selector ELSE Star

\* A selection ends with an array or with a thrown error.
Thrown == [kind |-> "error"]
Selected(array) == [kind |-> "array", array |-> array]

\* ------------------------------------------------- WidgetCollection

\* isFilter(selector): a function that is no widget constructor.
isFilter(selector) == selector.kind = "predicate"

\* createMatcher(selector) throws for a value that is neither a function nor
\* a string: it has no charAt.
createMatcherThrows(selector) == selector.kind \notin {"type", "string"}

\* createMatcher whose '.c' test holds when c is part of one of the classes.
createMatcherSubstring(selector, widget) ==
  IF selector.kind = "type" THEN selector.name \in SuperTypes(TypeName(widget))
  ELSE IF SubSeq(selector.value, 1, 1) = "#"
    THEN SubSeq(selector.value, 2, Len(selector.value)) = WidgetId(widget)
  ELSE IF SubSeq(selector.value, 1, 1) = "."
    THEN \E i \in 1..Len(ClassList(widget)) :
           \E a, b \in 1..Len(ClassList(widget)[i]) :
             SubSeq(ClassList(widget)[i], a, b) = SubSeq(selector.value, 2, Len(selector.value))
  ELSE IF selector.value = "*" THEN TRUE
  ELSE selector.value = TypeName(widget)

\* The test createMatcher(selector) returns, applied to widget.
createMatcher(selector, widget) ==
  IF selector.kind = "type" THEN selector.name \in SuperTypes(TypeName(widget))
  ELSE IF SubSeq(selector.value, 1, 1) = "#"
    THEN SubSeq(selector.value, 2, Len(selector.value)) = WidgetId(widget)
  ELSE IF SubSeq(selector.value, 1, 1) = "."
    THEN \E i \in 1..Len(ClassList(widget)) :
           ClassList(widget)[i] = SubSeq(selector.value, 2, Len(selector.value))
  ELSE IF selector.value = "*" THEN TRUE
  ELSE selector.value = TypeName(widget)

\* The function getFilter(selector) returns, applied to widget with the
\* matches it has recorded so far: whether it keeps the widget, and the
\* matches after it.
getFilter(matches, selector, widget) ==
  IF widget \in matches THEN [keep |-> FALSE, matches |-> matches]
  ELSE IF (IF isFilter(selector) THEN widget \in selector.holds
                                 ELSE createMatcher(selector, widget))
    THEN [keep |-> TRUE, matches |-> matches \cup {widget}]
    ELSE [keep |-> FALSE, matches |-> matches]

\* One test of the filter within a traversal: st holds the result and the
\* filter's matches.
Test(st, selector, widget) ==
  LET f == getFilter(st.matches, selector, widget)
  IN  [result |-> IF f.keep THEN Append(st.result, widget) ELSE st.result,
       matches |-> f.matches]

\* array.filter(filter)
RECURSIVE arrayFilter(_, _, _)
arrayFilter(st, array, selector) ==
  IF array = <<>> THEN st
  ELSE arrayFilter(Test(st, selector, Head(array)), Tail(array), selector)

\* deepSelect that does not go below a widget that matched.
RECURSIVE deepSelectPrune(_, _, _)
deepSelectPrune(st, iterable, selector) ==
  IF iterable = <<>> THEN st
  ELSE LET widget == Head(iterable)
           st1 == Test(st, selector, widget)
           children == WidgetChildren(widget)
           st2 == IF Len(children) > 0 /\ st1 = st
                    THEN deepSelectPrune(st1, children, selector) ELSE st1
       IN  deepSelectPrune(st2, Tail(iterable), selector)

\* deepSelect(result, iterable, filter)
RECURSIVE deepSelect(_, _, _)
deepSelect(st, iterable, selector) ==
  IF iterable = <<>> THEN st
  ELSE LET widget == Head(iterable)
           st1 == Test(st, selector, widget)
           children == WidgetChildren(widget)
           st2 == IF Len(children) > 0 THEN deepSelect(st1, children, selector) ELSE st1
       IN  deepSelect(st2, Tail(iterable), selector)

\* select(array, selector, deep)
select(array, selector, deep) ==
  LET start == [result |-> <<>>, matches |-> {}]
  IN  IF Len(array) = 0 THEN Selected(<<>>)
      ELSE IF selector = Star /\ ~deep THEN Selected(array)
      ELSE IF ~isFilter(selector) /\ createMatcherThrows(selector) THEN Thrown
      ELSE IF deep THEN Selected(deepSelect(start, array, selector).result)
      ELSE Selected(arrayFilter(start, array, selector).result)

\* new WidgetCollection(collection, selector, deep): its _array, or the error.
WidgetCollection(collection, selector, deep) == select(collection, OrStar(selector), deep)

\* What a method that ends with `new WidgetCollection(...)` returns.
AsReturned(selected) ==
  IF selected.kind = "array" THEN [kind |-> "collection", array |-> selected.array]
                             ELSE Thrown

\* The concatenation of the members' children, as children() collects it.
RECURSIVE ChildrenOf(_)
ChildrenOf(array) ==
  IF array = <<>> THEN <<>> ELSE WidgetChildren(Head(array)) \o ChildrenOf(Tail(array))

\* filter(selector)
filter(array, selector) == WidgetCollection(array, selector, FALSE)

\* children(selector)
children(array, selector) == WidgetCollection(ChildrenOf(array), selector, FALSE)

\* find(selector)
find(array, selector) ==
  WidgetCollection(children(array, [kind |-> "undefined"]).array, selector, TRUE)

\* parent(): the members' parents, each once, or undefined when there is none.
RECURSIVE Parents(_, _)
Parents(found, array) ==
  IF array = <<>> THEN found
  ELSE LET p == WidgetParent(Head(array))
           seen == \E i \in 1..Len(found) : found[i] = p
       IN  Parents(IF p # 0 /\ ~seen THEN Append(found, p) ELSE found, Tail(array))

parent(array) ==
  LET found == Parents(<<>>, array)
  IN  IF Len(found) > 0
        THEN AsReturned(WidgetCollection(found, [kind |-> "undefined"], FALSE))
        ELSE [kind |-> "undefined"]

\* An indexed read that throws outside the array.
AtOrThrow(array, index) ==
  IF index \in 1..Len(array) THEN [kind |-> "widget", widget |-> array[index]]
                              ELSE Thrown

\* this._array[index]: a member, or undefined.
At(array, index) ==
  IF index \in 1..Len(array) THEN [kind |-> "widget", widget |-> array[index]]
                              ELSE [kind |-> "undefined"]

\* first(selector)
first(array, selector) ==
  IF Truthy(selector)
    THEN LET filtered == filter(array, selector)
         IN  IF filtered.kind = "array" THEN At(filtered.array, 1) ELSE Thrown
    ELSE At(array, 1)

\* last(selector)
last(array, selector) ==
  IF Truthy(selector)
    THEN LET filtered == filter(array, selector)
         IN  IF filtered.kind = "array" THEN At(filtered.array, Len(filtered.array))
                                        ELSE Thrown
    ELSE At(array, Len(array))

\* ------------------------------------------------- collection actions

NoInvocation == [method |-> "none"]

InitColl ==
  /\ childList = [w \in Widgets |-> <<>>]
  /\ thisArray = <<>>
  /\ invocation = NoInvocation
  /\ invoked = <<>>
  /\ returned = [kind |-> "undefined"]
  /\ idOf = [w \in Widgets |-> InitialId(w)]
  /\ classesOf = [w \in Widgets |-> InitialClassList(w)]
  /\ arrays = <<>>
  /\ sourceRef = 0
  /\ ownRef = 0
  /\ handedRef = 0
  /\ produced = [array |-> <<>>]
  /\ mutations = 0
  /\ iterators = <<>>

Init == InitBridge /\ InitColl

\* A method of a collection is called: on the collection whose _array is
\* array (for the constructor, with array as its first argument). The methods
\* read the tree and the collection and change neither, so a behaviour builds
\* a tree and makes one call.
Called(method, array, selector, deep, value) ==
  /\ thisArray' = array
  /\ invocation' = [method |-> method, selector |-> selector, deep |-> deep]
  /\ returned' = value
  /\ UNCHANGED <<childList, invoked, bridgeVars, widgetVars, snapVars, iterVars>>

Construct ==
  /\ invocation = NoInvocation
  /\ \E array \in Arrays, selector \in Selectors, deep \in BOOLEAN :
         Called("constructor", array, selector, deep,
                AsReturned(WidgetCollection(array, selector, deep)))

Filter ==
  /\ invocation = NoInvocation
  /\ \E array \in Arrays, selector \in Selectors :
         Called("filter", array, selector, FALSE, AsReturned(filter(array, selector)))

Children ==
  /\ invocation = NoInvocation
  /\ \E array \in Arrays, selector \in Selectors :
         Called("children", array, selector, FALSE, AsReturned(children(array, selector)))

Find ==
  /\ invocation = NoInvocation
  /\ \E array \in Arrays, selector \in Selectors :
         Called("find", array, selector, TRUE, AsReturned(find(array, selector)))

Parent ==
  /\ invocation = NoInvocation
  /\ \E array \in Arrays :
         Called("parent", array, [kind |-> "undefined"], FALSE, parent(array))

First ==
  /\ invocation = NoInvocation
  /\ \E array \in Arrays, selector \in Selectors :
         Called("first", array, selector, FALSE, first(array, selector))

Last ==
  /\ invocation = NoInvocation
  /\ \E array \in Arrays, selector \in Selectors :
         Called("last", array, selector, FALSE, last(array, selector))

\* The tree after composite.append(child).
AppendChild(composite, child) ==
  [w \in Widgets |->
     LET rest == SelectSeq(childList[w], LAMBDA c : c # child)
     IN  IF w = composite THEN Append(rest, child) ELSE rest]

\* composite.append(child), while the tree is built: the child leaves its
\* parent's children and becomes the last child of composite. A widget is not
\* appended to itself or to a widget below it.
AppendWidget ==
  /\ invocation = NoInvocation
  /\ \E composite \in Widgets, child \in Widgets :
       /\ composite # child
       /\ composite \notin Below(child)
       /\ childList' = AppendChild(composite, child)
       /\ UNCHANGED <<thisArray, invocation, invoked, returned, bridgeVars,
                       widgetVars, snapVars, iterVars>>

NextSelect ==
  \/ AppendWidget
  \/ Construct \/ Filter \/ Children \/ Find \/ Parent \/ First \/ Last

SpecSelect == Init /\ [][NextSelect]_vars

\* ------------------------------------------- a collection as an object

\* The number of mutations of the tree, the widgets and the arrays made in one
\* behaviour.
MaxMutations == 2

\* A new array with these elements: the arrays with it, and its reference.
NewArray(h, elements) == [heap |-> Append(h, elements), ref |-> Len(h) + 1]

\* array.concat() that hands back the array itself.
concatSame(h, ref) == [heap |-> h, ref |-> ref]

\* array.concat(): a new array with the same elements.
concat(h, ref) == NewArray(h, h[ref])

\* The array select(array, selector, deep) returns: [], array.concat(), the
\* array deepSelect filled or the one array.filter made.
selectArray(h, ref, selector, deep) ==
  IF Len(h[ref]) = 0 THEN NewArray(h, <<>>)
  ELSE IF selector = Star /\ ~deep THEN concat(h, ref)
  ELSE NewArray(h, select(h[ref], selector, deep).array)

\* toArray()
toArray(h, ref) == concat(h, ref)

\* The selectors the collection is produced with.
SnapshotSelectors ==
  {[kind |-> "undefined"],
   [kind |-> "string", value |-> "#x"], [kind |-> "string", value |-> ".y"]}

\* The arrays the collection is produced from: distinct widgets, in the order
\* of their cids.
SnapshotArrays == {a \in Arrays : \A i \in 1..(Len(a) - 1) : a[i] < a[i + 1]}

snapshotFrame == <<bridgeVars, thisArray, invocation, invoked, returned, iterVars>>

\* new WidgetCollection(array, selector, deep) on an array of the caller.
Produce ==
  /\ ownRef = 0
  /\ \E array \in SnapshotArrays, selector \in SnapshotSelectors, deep \in BOOLEAN :
       LET given == NewArray(arrays, array)
           made == selectArray(given.heap, given.ref, OrStar(selector), deep)
       IN  /\ arrays' = made.heap
           /\ sourceRef' = given.ref
           /\ ownRef' = made.ref
           /\ produced' = [array |-> made.heap[made.ref], selector |-> selector,
                           deep |-> deep, source |-> array]
  /\ UNCHANGED <<handedRef, mutations, childList, widgetVars, snapshotFrame>>

\* collection.toArray()
ToArray ==
  /\ ownRef # 0
  /\ handedRef = 0
  /\ LET copy == toArray(arrays, ownRef)
     IN  /\ arrays' = copy.heap
         /\ handedRef' = copy.ref
  /\ UNCHANGED <<sourceRef, ownRef, produced, mutations, childList, widgetVars,
                 snapshotFrame>>

\* The caller pushes a widget onto the array the collection was built from,
\* or onto the array toArray() returned.
ArrayPush ==
  /\ ownRef # 0
  /\ mutations < MaxMutations
  /\ \E ref \in {sourceRef, handedRef} \ {0}, w \in Widgets :
       arrays' = [arrays EXCEPT ![ref] = Append(@, w)]
  /\ mutations' = mutations + 1
  /\ UNCHANGED <<sourceRef, ownRef, handedRef, produced, childList, widgetVars,
                 snapshotFrame>>

\* The caller shifts the first element off one of these arrays.
ArrayShift ==
  /\ ownRef # 0
  /\ mutations < MaxMutations
  /\ \E ref \in {sourceRef, handedRef} \ {0} :
       /\ Len(arrays[ref]) > 0
       /\ arrays' = [arrays EXCEPT ![ref] = Tail(@)]
  /\ mutations' = mutations + 1
  /\ UNCHANGED <<sourceRef, ownRef, handedRef, produced, childList, widgetVars,
                 snapshotFrame>>

\* composite.append(child), before or after the collection is produced.
CompositeAppend ==
  /\ mutations < MaxMutations
  /\ \E composite \in Widgets, child \in Widgets :
       /\ composite # child
       /\ composite \notin Below(child)
       /\ childList' = AppendChild(composite, child)
  /\ mutations' = mutations + 1
  /\ UNCHANGED <<arrays, sourceRef, ownRef, handedRef, produced, widgetVars,
                 snapshotFrame>>

\* widget.dispose(): the widget leaves its parent, and it and the widgets
\* below it have no children any more.
WidgetDispose ==
  /\ mutations < MaxMutations
  /\ \E widget \in Widgets :
       childList' =
         [w \in Widgets |->
            IF w = widget \/ w \in Below(widget) THEN <<>>
            ELSE SelectSeq(childList[w], LAMBDA c : c # widget)]
  /\ mutations' = mutations + 1
  /\ UNCHANGED <<arrays, sourceRef, ownRef, handedRef, produced, widgetVars,
                 snapshotFrame>>

\* widget.id = ...: the id 'x' is given or taken away.
SetId ==
  /\ mutations < MaxMutations
  /\ \E widget \in Widgets :
       idOf' = [idOf EXCEPT ![widget] = IF @ = "x" THEN "" ELSE "x"]
  /\ mutations' = mutations + 1
  /\ UNCHANGED <<arrays, sourceRef, ownRef, handedRef, produced, childList,
                 classesOf, snapshotFrame>>

\* widget.class = ...: the class 'y' is added or removed.
SetClass ==
  /\ mutations < MaxMutations
  /\ \E widget \in Widgets :
       classesOf' = [classesOf EXCEPT ![widget] =
                       IF \E i \in 1..Len(@) : @[i] = "y"
                         THEN SelectSeq(@, LAMBDA c : c # "y")
                         ELSE Append(@, "y")]
  /\ mutations' = mutations + 1
  /\ UNCHANGED <<arrays, sourceRef, ownRef, handedRef, produced, childList,
                 idOf, snapshotFrame>>

NextSnapshot ==
  \/ Produce \/ ToArray \/ ArrayPush \/ ArrayShift
  \/ CompositeAppend \/ WidgetDispose \/ SetId \/ SetClass

SpecSnapshot == Init /\ [][NextSnapshot]_vars

\* ---------------------------------------------------------- iteration

\* The number of iterators made from the collection.
MaxIterators == 2
\* The number of steps an iterator is taken beyond the last member.
MaxDone == 2

\* collection[Symbol.iterator](), on the collection the constructor returned:
\* a new iterator, with its own index at 0.
GetIterator ==
  /\ invocation.method = "constructor"
  /\ returned.kind = "collection"
  /\ Len(iterators) < MaxIterators
  /\ iterators' = Append(iterators, [index |-> 0, yields |-> <<>>])
  /\ UNCHANGED <<bridgeVars, childList, thisArray, invocation, invoked, returned,
                 widgetVars, snapVars>>

\* iterator.next(): the member at index, and index goes up by one; done once
\* index has reached the length.
IteratorNext ==
  /\ \E k \in 1..Len(iterators) :
       LET index == iterators[k].index
           length == Len(returned.array)
       IN  /\ Len(iterators[k].yields) < length + MaxDone
           /\ iterators' =
                [iterators EXCEPT ![k] =
                   IF index < length
                     THEN [index |-> index + 1,
                           yields |-> Append(@.yields, [value |-> returned.array[index + 1],
                                                        done |-> FALSE])]
                     ELSE [index |-> index,
                           yields |-> Append(@.yields, [done |-> TRUE])]]
  /\ UNCHANGED <<bridgeVars, childList, thisArray, invocation, invoked, returned,
                 widgetVars, snapVars>>

NextIterate == Construct \/ GetIterator \/ IteratorNext

SpecIterate == Init /\ [][NextIterate]_vars

\* ------------------------------------------------------ bulk dispatch

\* this._array.forEach(widget => widget[method].apply(widget, arguments)): the
\* members are called in index order; a call that throws ends the loop, and
\* the error leaves forEach and the bulk method.
RECURSIVE forEach(_, _, _, _)
forEach(done, array, method, failing) ==
  IF array = <<>> THEN [invoked |-> done, threw |-> FALSE]
  ELSE LET made == Append(done, [widget |-> Head(array), method |-> method])
       IN  IF Head(array) \in failing THEN [invoked |-> made, threw |-> TRUE]
           ELSE forEach(made, Tail(array), method, failing)

\* A bulk method is called on the collection whose _array is array; the
\* member calls of the widgets in failing throw. With chain, the method ends
\* with `return this`.
Dispatch(method, chain) ==
  /\ invocation = NoInvocation
  /\ \E array \in Arrays, failing \in SUBSET Widgets :
       LET run == forEach(<<>>, array, method, failing)
       IN  /\ thisArray' = array
           /\ invocation' = [method |-> method, failing |-> failing]
           /\ invoked' = run.invoked
           /\ returned' = IF run.threw THEN Thrown
                           ELSE IF chain THEN [kind |-> "this"]
                           ELSE [kind |-> "undefined"]
           /\ UNCHANGED <<childList, bridgeVars, widgetVars, snapVars, iterVars>>

CollectionSet == Dispatch("set", TRUE)
CollectionOn == Dispatch("on", TRUE)
CollectionOff == Dispatch("off", TRUE)
CollectionOnce == Dispatch("once", TRUE)
CollectionTrigger == Dispatch("trigger", TRUE)
CollectionAnimate == Dispatch("animate", FALSE)
CollectionDispose == Dispatch("dispose", FALSE)

NextBulk ==
  \/ CollectionSet \/ CollectionOn \/ CollectionOff \/ CollectionOnce
  \/ CollectionTrigger \/ CollectionAnimate \/ CollectionDispose

SpecBulk == Init /\ [][NextBulk]_vars

\* The stub used directly: every operation is a call of its method.
Next ==
  \/ Create \/ Get \/ Set \/ Call \/ Listen \/ Destroy
  \/ Calls \/ ResetCalls \/ Properties

Spec == Init /\ [][Next]_vars

\* The stub behind the native bridge: every operation is buffered, and
\* reaches the stub at a flush.
NextBridge ==
  \/ Buffer \/ Flush
  \/ Calls \/ ResetCalls \/ Properties

SpecBridge == Init /\ [][NextBridge]_vars

\* ------------------------------------------------------ bridge claims

\* An entry or an operation without its properties object: the fields that
\* are plain values.
Strip(e) == [k \in DOMAIN e \ {"properties"} |-> e[k]]
Strips(s) == [i \in 1..Len(s) |-> Strip(s[i])]

\* The operations that reached the stub since the last resetCalls().
SinceReset == SubSeq(history, logStart + 1, Len(history))

\* An operation has every key of the filter, with the filter's value.
Agrees(o, f) == \A key \in DOMAIN f : key \in DOMAIN o /\ o[key] = f[key]

\* The indices of history at which an operation of one of the kinds ops was
\* issued for id.
Marks(id, ops) == {i \in 1..Len(history) : history[i].id = id /\ history[i].op \in ops}

\* C1: calls() returns one entry per operation issued since the last
\* resetCalls(), in the order issued, and calls(filter) returns exactly the
\* entries that agree with every key of the filter, in that order.
LogOrder ==
  result.kind = "calls" =>
    LET wanted(o) == Agrees(o, result.filter)
    IN  Strips(result.value) = Strips(SelectSeq(SinceReset, wanted))

\* calls({op:'set', id:'w1'}) picked one of three logged operations.
LogOrderWitness ==
  /\ result.kind = "calls"
  /\ result.filter = [op |-> "set", id |-> "w1"]
  /\ Len(SinceReset) = 3
  /\ Len(result.value) = 1
  /\ SinceReset[2].op = "set" /\ SinceReset[2].id = "w1"

\* C2 as stated: a record exists for an identity iff a create was issued for
\* it and no destroy for it was issued after that create.
RecordIffCreated ==
  \A id \in Ids :
    id \in DOMAIN objects <=>
      \E i \in Marks(id, {"create"}) : \A j \in Marks(id, {"destroy"}) : j < i

\* C2, amended: a record exists for an identity iff a create or a set was
\* issued for it and no destroy for it was issued after that create or set.
RecordIffCreatedOrSet ==
  \A id \in Ids :
    id \in DOMAIN objects <=>
      \E i \in Marks(id, {"create", "set"}) : \A j \in Marks(id, {"destroy"}) : j < i

\* A record that only a set made, and an identity destroyed after its create.
RecordIffCreatedOrSetWitness ==
  /\ "w1" \in DOMAIN objects /\ Marks("w1", {"create"}) = {}
  /\ "w2" \notin DOMAIN objects /\ Marks("w2", {"create"}) # {}

\* P0 overridden key by key by the properties of the sets for id issued after
\* index from: a key has the value of the last such set that names it, and
\* P0's value when none does.
Overridden(id, from, p0) ==
  LET later == {i \in Marks(id, {"set"}) : i > from}
      naming(k) == {i \in later : k \in DOMAIN history[i].properties}
      keys == DOMAIN p0 \cup UNION {DOMAIN history[i].properties : i \in later}
  IN  [k \in keys |->
         IF naming(k) = {} THEN p0[k]
         ELSE history[CHOOSE i \in naming(k) : \A j \in naming(k) : j <= i].properties[k]]

\* The last element of a non-empty set of indices.
LastOf(S) == CHOOSE i \in S : \A j \in S : j <= i

\* C3: after create(id, type, P0) and then only sets for id, properties(id)
\* returns P0 overridden by the sets in issue order; once destroy(id) was
\* issued with no later create or set for id, properties(id) fails.
ShadowConsistency ==
  result.kind = "properties" =>
    LET id == result.id
        ends == Marks(id, {"create", "destroy"})
    IN  ends # {} =>
          LET c == LastOf(ends)
          IN  IF history[c].op = "create"
                THEN /\ "value" \in DOMAIN result
                     /\ heap[result.value] = Overridden(id, c, history[c].properties)
                ELSE {i \in Marks(id, {"set"}) : i > c} = {} => "error" \in DOMAIN result

\* create('w1', .., {text:'a'}), set('w1', {text:'c', font:'b'}),
\* set('w1', {text:'b'}): properties('w1') returns {text:'b', font:'b'}.
ShadowConsistencyWitness ==
  /\ result.kind = "properties" /\ result.id = "w1"
  /\ "value" \in DOMAIN result
  /\ heap[result.value] = [text |-> "b", font |-> "b"]
  /\ Len(history) = 3
  /\ history[1].op = "create"
  /\ history[2].op = "set" /\ history[2].properties = [text |-> "c", font |-> "b"]
  /\ history[3].op = "set" /\ history[3].properties = [text |-> "b"]

\* C4: calls(), resetCalls() and properties(id) flush before they read or
\* clear: nothing stays buffered, the buffered operations are in the log one
\* entry each in the order buffered (after resetCalls() the log is empty), and
\* the store is the one the buffered operations leave.
FlushBeforeInspection ==
  [][result'.kind \in {"calls", "resetCalls", "properties"} =>
       /\ pending' = <<>>
       /\ Strips(calls') = IF result'.kind = "resetCalls" THEN <<>>
                           ELSE Strips(calls) \o Strips(pending)
       /\ result'.kind = "calls" =>
            Strips(result'.value) =
              Strips(SelectSeq(SubSeq(history, logStart + 1, Len(history)) \o pending,
                               LAMBDA o : Agrees(o, result'.filter)))
       /\ objects' = Flushed.objects
       /\ heap' = Flushed.heap]_vars

\* calls() with a set and a destroy buffered shows both, in that order, after
\* the operation that was logged before.
FlushBeforeInspectionWitness ==
  /\ result.kind = "calls" /\ result.filter = NoFilter /\ result.flushed = 2
  /\ pending = <<>>
  /\ Len(result.value) = 3
  /\ result.value[1].op = "create"
  /\ result.value[2].op = "set" /\ result.value[3].op = "destroy"

\* C9 as stated: destroy(id) for an identity with no record fails at the
\* call and leaves the log and the record store as they were.
DestroyUnknownFails ==
  [][(/\ Len(history') = Len(history) + 1
      /\ history'[Len(history')].op = "destroy"
      /\ history'[Len(history')].id \notin DOMAIN objects)
       => (/\ "error" \in DOMAIN result'
           /\ calls' = calls
           /\ objects' = objects)]_vars

\* -------------------------------------------------- collection claims

\* The widgets a traversal from these widgets meets, in pre-order, a widget
\* once for every path that leads to it.
RECURSIVE PreOrder(_)
PreOrder(widgets) ==
  IF widgets = <<>> THEN <<>>
  ELSE <<Head(widgets)>> \o PreOrder(childList[Head(widgets)]) \o PreOrder(Tail(widgets))

\* The traversal that starts at the children of every member.
RECURSIVE FromChildren(_)
FromChildren(members) ==
  IF members = <<>> THEN <<>>
  ELSE PreOrder(childList[Head(members)]) \o FromChildren(Tail(members))

\* A sequence without the repeats of its elements.
KeepFirst(s) ==
  LET firsts == {i \in 1..Len(s) : \A j \in 1..(i - 1) : s[j] # s[i]}
      F[i \in 0..Len(s)] ==
        IF i = 0 THEN <<>> ELSE IF i \in firsts THEN Append(F[i - 1], s[i]) ELSE F[i - 1]
  IN  F[Len(s)]

\* The elements of a sequence.
Range(s) == {s[i] : i \in 1..Len(s)}

NoRepeats(s) == \A i, j \in 1..Len(s) : i # j => s[i] # s[j]

\* A selector that is a string, a widget constructor or a predicate, or absent.
WellFormed(selector) == selector.kind # "other"

\* The widget passes the selector's test.
Matches(selector, widget) ==
  IF isFilter(selector) THEN widget \in selector.holds
  ELSE createMatcher(OrStar(selector), widget)

\* C5: find(selector) tests, in pre-order, every widget below the members
\* and never a member as such, whether or not the widgets above it matched,
\* and returns the matching ones in that order; find('*') returns every
\* widget below the members exactly once.
FindPreOrder ==
  (invocation.method = "find" /\ WellFormed(invocation.selector)) =>
    /\ returned.kind = "collection"
    /\ returned.array =
         KeepFirst(SelectSeq(FromChildren(thisArray),
                             LAMBDA w : Matches(invocation.selector, w)))
    /\ OrStar(invocation.selector) = Star =>
         /\ Range(returned.array) = UNION {Below(thisArray[i]) : i \in 1..Len(thisArray)}
         /\ NoRepeats(returned.array)

\* find('*') on a widget with a child and a grandchild returns both: the
\* child matched, and the traversal still went below it.
FindPreOrderWitness ==
  /\ invocation.method = "find" /\ invocation.selector = Star
  /\ Len(thisArray) = 1
  /\ Len(returned.array) = 2
  /\ returned.array[2] \in Range(childList[returned.array[1]])
  /\ returned.array[1] \in Range(childList[thisArray[1]])

\* C6 as stated: no collection holds the same widget twice, however it was
\* produced.
NoDuplicates ==
  returned.kind = "collection" => NoRepeats(returned.array)

\* C7 as stated: set, on, off, once and trigger call the member method once
\* on every member, in index order, and return the collection.
BulkCallsEveryMember ==
  invocation.method \in {"set", "on", "off", "once", "trigger"} =>
    /\ invoked = [i \in 1..Len(thisArray) |->
                    [widget |-> thisArray[i], method |-> invocation.method]]
    /\ returned.kind = "this"

\* C8 as stated: when the call on a member fails, the method is still called
\* on every member after it, and the failure reaches the caller.
BulkContinuesAfterFailure ==
  invocation.method \in {"set", "on", "off", "once", "trigger", "animate", "dispose"} =>
    /\ \A i \in 1..Len(thisArray) :
         \E k \in 1..Len(invoked) : invoked[k].widget = thisArray[i]
    /\ (\E i \in 1..Len(thisArray) : thisArray[i] \in invocation.failing) =>
         returned = Thrown

\* C10 as stated: a selection with a selector that is neither a string, a
\* constructor nor a predicate fails, whatever the input; a well-formed
\* selector never fails, also when nothing matches.
MalformedSelectorFails ==
  invocation.method \in {"constructor", "filter", "children", "find", "first", "last"} =>
    IF WellFormed(invocation.selector) THEN returned # Thrown ELSE returned = Thrown

\* C11: once a collection is produced, its members and their order stay as
\* they were, whatever is done afterwards to the tree, to the widgets' ids
\* and class lists, to the array it was built from and to the array
\* toArray() returned.
Snapshot ==
  ownRef # 0 => arrays[ownRef] = produced.array

\* new WidgetCollection([...]) with no selector; afterwards the array it was
\* built from and the array toArray() returned were both changed.
SnapshotWitness ==
  /\ ownRef # 0 /\ handedRef # 0
  /\ produced.selector = [kind |-> "undefined"] /\ ~produced.deep
  /\ Len(produced.array) = 2
  /\ arrays[sourceRef] # produced.source
  /\ arrays[handedRef] # produced.array

\* A string selector read form by form: '*', '#<id>', '.<class>', type name.
MatchesString(s, w) ==
  IF s = "*" THEN TRUE
  ELSE IF SubSeq(s, 1, 1) = "#" THEN idOf[w] = SubSeq(s, 2, Len(s))
  ELSE IF SubSeq(s, 1, 1) = "." THEN SubSeq(s, 2, Len(s)) \in Range(classesOf[w])
  ELSE TypeName(w) = s

\* C12: filter(s) and find(s) with a string s keep exactly the widgets, of
\* those they test, that s matches by its form: all for '*', those with id x
\* for '#x', those with c as a whole class for '.c', and those of type s for
\* any other s.
StringSelectorForms ==
  (/\ invocation.method \in {"filter", "find"}
   /\ invocation.selector.kind = "string") =>
    /\ returned.kind = "collection"
    /\ Range(returned.array) =
         {w \in (IF invocation.method = "filter" THEN Range(thisArray)
                 ELSE UNION {Below(thisArray[i]) : i \in 1..Len(thisArray)}) :
            MatchesString(invocation.selector.value, w)}

\* find('.y') on a widget with two children, the first of class 'yy' and the
\* second of classes 'z' and 'y', returns the second only.
StringSelectorFormsWitness ==
  /\ invocation.method = "find"
  /\ invocation.selector = [kind |-> "string", value |-> ".y"]
  /\ thisArray = <<2>>
  /\ childList[2] = <<1, 3>>
  /\ classesOf[1] = <<"yy">> /\ classesOf[3] = <<"z", "y">>
  /\ returned.kind = "collection" /\ returned.array = <<3>>

\* The members filter(selector) keeps, in order: all of them for '*' or no
\* selector, else the matching ones, a widget once.
Filtered(array, selector) ==
  IF OrStar(selector) = Star THEN array
  ELSE KeepFirst(SelectSeq(array, LAMBDA w : Matches(selector, w)))

\* A member as a method returns it, or the absent value for an empty sequence.
MemberOrAbsent(members, index) ==
  IF members = <<>> THEN [kind |-> "undefined"]
  ELSE [kind |-> "widget", widget |-> members[index]]

\* C13: first() and last() return the first and the last member, and the
\* absent value on an empty collection; first(selector) and last(selector)
\* return the first and the last member of filter(selector), and the absent
\* value when nothing matches; parent() returns the absent value when no
\* member has a parent, and a collection otherwise.
AbsentNotThrown ==
  /\ (invocation.method \in {"first", "last"} /\ WellFormed(invocation.selector)) =>
       LET members == IF Truthy(invocation.selector)
                        THEN Filtered(thisArray, invocation.selector)
                        ELSE thisArray
       IN  returned = MemberOrAbsent(members, IF invocation.method = "first"
                                                THEN 1 ELSE Len(members))
  /\ invocation.method = "parent" =>
       IF \A i \in 1..Len(thisArray) :
            \A p \in Widgets : thisArray[i] \notin Range(childList[p])
         THEN returned = [kind |-> "undefined"]
         ELSE returned.kind = "collection" /\ returned.array # <<>>

\* last('#x') on two widgets neither of which has the id x: nothing matches,
\* and the absent value is returned.
AbsentNotThrownWitness ==
  /\ invocation.method = "last"
  /\ invocation.selector = [kind |-> "string", value |-> "#x"]
  /\ thisArray = <<1, 3>>
  /\ returned = [kind |-> "undefined"]

\* C14: get, call and listen append one entry, the operation as issued, to
\* the log and leave the records and their properties as they were, whether
\* or not the identity has a record and whether or not the log already has
\* an equal entry.
QueriesLeaveStore ==
  [][(/\ Len(history') = Len(history) + 1
      /\ history'[Len(history')].op \in {"get", "call", "listen"})
       => (/\ calls' = Append(calls, history'[Len(history')])
           /\ objects' = objects
           /\ heap' = heap)]_vars

\* create('w2', ...) and then listen('w2', 'tap', true) twice: two equal
\* listen entries, and the record of w2 as create left it.
QueriesLeaveStoreWitness ==
  /\ Len(calls) = 3
  /\ calls[1].op = "create" /\ calls[1].id = "w2"
  /\ calls[2].op = "listen" /\ calls[3] = calls[2]
  /\ "w2" \in DOMAIN objects
  /\ heap[objects["w2"].properties] = [text |-> "a"]

\* What properties(id) gives for every identity on a store: the properties, or
\* the failure for an identity without a record.
Shown(objs, h) ==
  [id \in Ids |-> IF id \in DOMAIN objs THEN h[objs[id].properties]
                                         ELSE [error |-> "No object with id"]]

\* C15: resetCalls() leaves an empty log, and properties(id) gives for every
\* identity what it gave before (properties(id) delivers the buffered
\* operations first, as resetCalls() does); with nothing buffered the records
\* are as they were; a resetCalls() right after a resetCalls() changes
\* nothing; calls() right after resetCalls() returns the empty sequence.
ResetKeepsRecords ==
  [][/\ result'.kind = "resetCalls" =>
          /\ calls' = <<>>
          /\ Shown(objects', heap') = Shown(Flushed.objects, Flushed.heap)
          /\ pending = <<>> => (objects' = objects /\ heap' = heap)
          /\ result.kind = "resetCalls" =>
               <<calls', objects', heap', pending', logStart'>>
                 = <<calls, objects, heap, pending, logStart>>
     /\ (result.kind = "resetCalls" /\ result'.kind = "calls") =>
          result'.value = <<>>]_vars

\* resetCalls() with a record for w1 and two operations in the log: the log
\* is empty, and the record has the properties create and set gave it.
ResetKeepsRecordsWitness ==
  /\ result.kind = "resetCalls"
  /\ calls = <<>>
  /\ Len(history) = 2 /\ logStart = 2
  /\ history[1].op = "create" /\ history[2].op = "set"
  /\ "w1" \in DOMAIN objects
  /\ heap[objects["w1"].properties] = [text |-> "b"]

\* A log entry with the properties object it refers to in place of the
\* reference.
Entry(e, h) ==
  [k \in DOMAIN e |-> IF k = "properties" THEN h[e[k]] ELSE e[k]]

\* The log as a reader sees it.
Entries(log, h) == [i \in 1..Len(log) |-> Entry(log[i], h)]

\* The stub after the entries were applied to it one by one.
RECURSIVE Replay(_, _)
Replay(s, entries) ==
  IF entries = <<>> THEN s ELSE Replay(Invoke(s, Head(entries)), Tail(entries))

\* The records of a store: for every identity with a record its type
\* (undefined for a record without one) and its properties.
Records(objs, h) ==
  [id \in DOMAIN objs |->
     [type |-> Field(objs[id], "type"), properties |-> h[objs[id].properties]]]

\* C16: as long as resetCalls() has not cleared anything, applying the log's
\* entries in order to a new stub gives the records of the stub: the same
\* identities, each with the same type and the same properties.
ReplayReproduces ==
  logStart = 0 =>
    LET replayed == Replay(Stub(<<>>, [i \in {} |-> Undefined], <<>>), Entries(calls, heap))
    IN  Records(replayed.objects, replayed.heap) = Records(objects, heap)

\* set('w1', {text:'c', font:'b'}) before any create, create('w1', ...) on the
\* record that set made, then set('w1', {text:'b'}).
ReplayReproducesWitness ==
  /\ logStart = 0 /\ Len(calls) = 3
  /\ calls[1].op = "set" /\ calls[2].op = "create" /\ calls[3].op = "set"
  /\ \A i \in 1..3 : calls[i].id = "w1"
  /\ Records(objects, heap) =
       [id \in {"w1"} |-> [type |-> "Button", properties |-> [text |-> "b"]]]

\* The children of the members, member by member and in child order.
RECURSIVE Concatenated(_)
Concatenated(members) ==
  IF members = <<>> THEN <<>>
  ELSE childList[Head(members)] \o Concatenated(Tail(members))

\* C17 as stated: children(selector) returns the children of the members,
\* member by member and in child order, those that match the selector, a
\* child once for every member it is a child of, with every selector alike.
ChildrenConcatenated ==
  (invocation.method = "children" /\ WellFormed(invocation.selector)) =>
    /\ returned.kind = "collection"
    /\ returned.array = SelectSeq(Concatenated(thisArray),
                                  LAMBDA w : Matches(invocation.selector, w))

\* C18 as stated: an entry of the log keeps its content, the properties it
\* shows included, and its place, until resetCalls() clears the log.
LogContentStable ==
  [][logStart' = logStart =>
       /\ Len(calls') >= Len(calls)
       /\ \A i \in 1..Len(calls) : Entry(calls'[i], heap') = Entry(calls[i], heap)]_vars

\* C19: set(id, properties) for an identity without a record does not fail,
\* appends its one entry, and leaves a record for id that has no type and
\* exactly the given properties, the other records as they were; create(id,
\* type, P) leaves for id the record of type and P whatever was there before;
\* and properties(id) returns the properties of the record there is.
SetMakesRecord ==
  [][/\ Len(history') = Len(history) + 1 =>
          LET o == history'[Len(history')]
          IN  /\ (o.op = "set" /\ o.id \notin DOMAIN objects) =>
                   /\ "error" \notin DOMAIN result'
                   /\ Entries(calls', heap') = Append(Entries(calls, heap), o)
                   /\ DOMAIN objects' = DOMAIN objects \cup {o.id}
                   /\ "type" \notin DOMAIN objects'[o.id]
                   /\ heap'[objects'[o.id].properties] = o.properties
                   /\ \A id \in DOMAIN objects :
                        Records(objects', heap')[id] = Records(objects, heap)[id]
              /\ o.op = "create" =>
                   /\ o.id \in DOMAIN objects'
                   /\ Records(objects', heap')[o.id] =
                        [type |-> o.type, properties |-> o.properties]
     /\ (result'.kind = "properties" /\ result' # result /\ result'.id \in DOMAIN objects) =>
          /\ "value" \in DOMAIN result'
          /\ heap'[result'.value] = heap[objects[result'.id].properties]]_vars

\* set('w1', {text:'c', font:'b'}) with no record for w1, then create('w1',
\* 'Button', {text:'a'}): properties('w1') returns {text:'a'}.
SetMakesRecordWitness ==
  /\ result.kind = "properties" /\ result.id = "w1"
  /\ Len(history) = 2
  /\ history[1] = [op |-> "set", id |-> "w1", properties |-> [text |-> "c", font |-> "b"]]
  /\ history[2].op = "create" /\ history[2].id = "w1"
  /\ "value" \in DOMAIN result
  /\ heap[result.value] = [text |-> "a"]

\* C20 as stated: an iterator yields the members in index order, each once,
\* and then reports done at every step; and the collection is iterated once
\* only: no member is yielded a second time through another iterator of the
\* same collection.
IteratedOnce ==
  /\ \A k \in 1..Len(iterators) :
       \A n \in 1..Len(iterators[k].yields) :
         iterators[k].yields[n] =
           IF n <= Len(returned.array)
             THEN [value |-> returned.array[n], done |-> FALSE]
             ELSE [done |-> TRUE]
  /\ \A k1, k2 \in 1..Len(iterators) :
       (k1 # k2 /\ iterators[k1].index > 0) => iterators[k2].index = 0

====
